---- MODULE Spec2Model ----
(***************************************************************************)
(* humanesort (src/src/lib.rs): the tokenizer TokenIterator, which splits  *)
(* a string into runs of graphemes of one kind, and the comparator         *)
(* HumaneOrder::humane_cmp, which walks two token streams in lockstep.     *)
(*                                                                         *)
(* A string is a sequence of graphemes and a grapheme is the sequence of   *)
(* its UTF-8 bytes, so that byte offsets, slices and the ordinal order of  *)
(* str are those of the program.                                           *)
(***************************************************************************)
EXTENDS Integers, Sequences, FiniteSets, TLC

VARIABLES
    self_string,    \* humane_cmp: self.as_ref()
    other_string,   \* humane_cmp: other.as_ref()
    self_tokens,    \* humane_cmp: the TokenIterator over self
    other_tokens,   \* humane_cmp: the TokenIterator over other
    ours,           \* the item last pulled from self_tokens
    theirs,         \* the item last pulled from other_tokens
    verdict,        \* "Running", an Ordering, or "Panic" (unwrap on Err)
    tk_iter,        \* a TokenIterator driven on its own (as tests::sorting_test does)
    tk_yielded,     \* the items its next() has returned so far
    tk_calls,       \* per grapheme, how often token_type was applied to it
    tk_done,        \* its next() has returned None
    tr_strings,     \* three strings a, b, c compared pairwise
    tr_results      \* the verdicts of humane_cmp on (a,b), (b,c), (a,c)

vars == <<self_string, other_string, self_tokens, other_tokens, ours, theirs,
          verdict, tk_iter, tk_yielded, tk_calls, tk_done,
          tr_strings, tr_results>>

(***************************************************************************)
(* Bounds of the model.                                                    *)
(***************************************************************************)
MaxLen == 3        \* graphemes in a short input of humane_cmp
MaxTokLen == 5     \* graphemes in an input of the tokenizer
MaxTransLen == 2   \* graphemes in a short input of the transitivity check

(***************************************************************************)
(* Graphemes, as UTF-8 bytes.                                              *)
(***************************************************************************)
G0 == <<48>>
G1 == <<49>>
G2 == <<50>>
Ga == <<97>>
Gb == <<98>>
GL == <<76>>
GO == <<79>>
Geacute == <<195, 169>>

RECURSIVE Bytes(_)
Bytes(s) == IF s = <<>> THEN <<>> ELSE Head(s) \o Bytes(Tail(s))

\* str::len: the length in bytes
StrLen(s) == Len(Bytes(s))

\* the byte offset of the k-th grapheme (the index grapheme_indices pairs it with)
Offset(s, k) == StrLen(SubSeq(s, 1, k - 1))

\* &string[i..j]
Slice(s, i, j) == SubSeq(Bytes(s), i + 1, j)

Numeric == "Numeric"
NonNumeric == "NonNumeric"
SortingType == {Numeric, NonNumeric}

Less == "Less"
Equal == "Equal"
Greater == "Greater"
Ordering == {Less, Equal, Greater}

None == [some |-> FALSE]
Some(x) == [some |-> TRUE, val |-> x]

(***************************************************************************)
(* Unsigned integers.  A value is the sequence of its decimal digits       *)
(* without leading zeros (zero is the empty sequence), so that a value of  *)
(* any size can be told from one that fits the integer type.               *)
(***************************************************************************)
RECURSIVE StripZeros(_)
StripZeros(ds) ==
    IF ds # <<>> /\ Head(ds) = 0 THEN StripZeros(Tail(ds)) ELSE ds

RECURSIVE CmpSeq(_, _)
\* the lexicographic order of two sequences of numbers ([u8]::cmp)
CmpSeq(x, y) ==
    IF x = <<>> /\ y = <<>> THEN Equal
    ELSE IF x = <<>> THEN Less
    ELSE IF y = <<>> THEN Greater
    ELSE IF Head(x) < Head(y) THEN Less
    ELSE IF Head(x) > Head(y) THEN Greater
    ELSE CmpSeq(Tail(x), Tail(y))

\* the order of two values (usize::cmp)
CmpValue(x, y) ==
    IF Len(x) < Len(y) THEN Less
    ELSE IF Len(x) > Len(y) THEN Greater
    ELSE CmpSeq(x, y)

\* u64::MAX and, on a 64-bit target, usize::MAX: 2^64 - 1
U64_MAX == <<1,8,4,4,6,7,4,4,0,7,3,7,0,9,5,5,1,6,1,5>>
USIZE_MAX == U64_MAX

Ok(v) == [ok |-> TRUE, val |-> v]
Err(e) == [ok |-> FALSE, err |-> e]

\* str::parse::<uN>(): an optional '+', then decimal digits only, and the
\* value must fit the type
ParseUnsigned(src, max) ==
    IF src = <<>> THEN Err("Empty")
    ELSE IF Len(src) = 1 /\ src[1] \in {43, 45} THEN Err("InvalidDigit")
    ELSE LET digits == IF src[1] = 43 THEN Tail(src) ELSE src
         IN  IF \E i \in 1..Len(digits) : digits[i] \notin 48..57
             THEN Err("InvalidDigit")
             ELSE LET v == StripZeros([i \in 1..Len(digits) |-> digits[i] - 48])
                  IN  IF CmpValue(v, max) = Greater
                      THEN Err("PosOverflow")
                      ELSE Ok(v)

\* fn sorting_type(x: &str) -> SortingType
sorting_type(x) ==
    LET num == ParseUnsigned(x, U64_MAX)
    IN  IF num.ok THEN Numeric ELSE NonNumeric

(***************************************************************************)
(* TokenIterator.  grapheme_iterator is the index, in the string's         *)
(* graphemes, of the grapheme the Peekable<GraphemeIndices> yields next.   *)
(* token_type is a function from graphemes to kinds.                       *)
(***************************************************************************)
TokenIterator_new(s, func) ==
    [token_type |-> func, string |-> s, grapheme_iterator |-> 1]

\* an item (&str, T): the span of the slice, its text and its kind
Item(s, first_index, end_index, kind) ==
    [first |-> first_index, end |-> end_index,
     text |-> Slice(s, first_index, end_index), kind |-> kind]

\* current_type != (self.token_type)(next_grapheme)
KindChanges_Inverted(current_type, next_type) == current_type = next_type
KindChanges(current_type, next_type) == current_type # next_type

\* peek() is None, the string ends: the span runs to string.len() and its
\* kind is token_type applied to the current grapheme once more
ReturnAtEnd(it, first_index, grapheme, log) ==
    [item |-> Some(Item(it.string, first_index, StrLen(it.string),
                        it.token_type[it.string[grapheme]])),
     it |-> it,
     log |-> log \o <<grapheme, grapheme>>]

\* as ReturnAtKindChange, with the kind computed once more as at the end of
\* the string
ReturnAtKindChange_Reclassify(it, first_index, grapheme, current_type, peek, log) ==
    [item |-> Some(Item(it.string, first_index, Offset(it.string, peek),
                        it.token_type[it.string[grapheme]])),
     it |-> it,
     log |-> log \o <<grapheme, peek, grapheme>>]

\* as ReturnAtKindChange, with next() in place of peek(): the grapheme that
\* ended the run is consumed
ReturnAtKindChange_Consuming(it, first_index, grapheme, current_type, peek, log) ==
    [item |-> Some(Item(it.string, first_index, Offset(it.string, peek),
                        current_type)),
     it |-> [it EXCEPT !.grapheme_iterator = peek + 1],
     log |-> log \o <<grapheme, peek>>]

\* the peeked grapheme is of another kind: the span ends at its offset and
\* it stays in the iterator
ReturnAtKindChange(it, first_index, grapheme, current_type, peek, log) ==
    [item |-> Some(Item(it.string, first_index, Offset(it.string, peek),
                        current_type)),
     it |-> it,
     log |-> log \o <<grapheme, peek>>]

RECURSIVE TokenLoop(_, _, _, _)
\* the loop of next(): grapheme is the index of the current grapheme, log
\* the graphemes token_type was applied to, in order
TokenLoop(it, first_index, grapheme, log) ==
    LET s == it.string
        current_type == it.token_type[s[grapheme]]
        peek == it.grapheme_iterator
    IN  IF peek > Len(s)
        THEN ReturnAtEnd(it, first_index, grapheme, log)
        ELSE IF KindChanges(current_type, it.token_type[s[peek]])
        THEN ReturnAtKindChange(it, first_index, grapheme, current_type, peek, log)
        ELSE TokenLoop([it EXCEPT !.grapheme_iterator = peek + 1],
                       first_index, peek, log \o <<grapheme, peek>>)

\* fn next(&mut self) -> Option<(&'a str, T)>
TokenIterator_next(it) ==
    IF it.grapheme_iterator > Len(it.string)
    THEN [item |-> None, it |-> it, log |-> <<>>]
    ELSE TokenLoop([it EXCEPT !.grapheme_iterator = it.grapheme_iterator + 1],
                   Offset(it.string, it.grapheme_iterator),
                   it.grapheme_iterator, <<>>)

(***************************************************************************)
(* HumaneOrder::humane_cmp                                                 *)
(***************************************************************************)
Running == "Running"
Panic == "Panic"

\* ours.0.parse::<usize>().unwrap().cmp(&theirs.0.parse::<usize>().unwrap())
NumericCmp(ours_text, theirs_text) ==
    LET l == ParseUnsigned(ours_text, USIZE_MAX)
        r == ParseUnsigned(theirs_text, USIZE_MAX)
    IN  IF ~l.ok \/ ~r.ok THEN Panic ELSE CmpValue(l.val, r.val)

\* as NonNumericCmp, with the shorter text first
NonNumericCmp_ShorterFirst(ours_text, theirs_text) ==
    IF Len(ours_text) < Len(theirs_text) THEN Less
    ELSE IF Len(ours_text) > Len(theirs_text) THEN Greater
    ELSE CmpSeq(ours_text, theirs_text)

\* ours.0.cmp(theirs.0): the ordinal order of str, byte by byte
NonNumericCmp(ours_text, theirs_text) == CmpSeq(ours_text, theirs_text)

\* as MatchKinds, with the arms of unlike kinds as the crate's documentation
\* words them ("Numbers are always greater than nun-numbers")
MatchKinds_NumbersGreater(o, t) ==
    IF o.kind = Numeric /\ t.kind = NonNumeric THEN Greater
    ELSE IF o.kind = NonNumeric /\ t.kind = Numeric THEN Less
    ELSE IF o.kind = Numeric /\ t.kind = Numeric
    THEN LET cmp == NumericCmp(o.text, t.text)
         IN  IF cmp # Equal THEN cmp ELSE Running
    ELSE LET cmp == NonNumericCmp(o.text, t.text)
         IN  IF cmp # Equal THEN cmp ELSE Running

\* as MatchKinds, with the second arm of unlike kinds a copy of the first
MatchKinds_MixedLess(o, t) ==
    IF o.kind = Numeric /\ t.kind = NonNumeric THEN Less
    ELSE IF o.kind = NonNumeric /\ t.kind = Numeric THEN Less
    ELSE IF o.kind = Numeric /\ t.kind = Numeric
    THEN LET cmp == NumericCmp(o.text, t.text)
         IN  IF cmp # Equal THEN cmp ELSE Running
    ELSE LET cmp == NonNumericCmp(o.text, t.text)
         IN  IF cmp # Equal THEN cmp ELSE Running

\* the arm taken when both iterators produced a token: an Ordering or Panic
\* when the call returns, Running when the loop goes on
MatchKinds(o, t) ==
    IF o.kind = Numeric /\ t.kind = NonNumeric THEN Less
    ELSE IF o.kind = NonNumeric /\ t.kind = Numeric THEN Greater
    ELSE IF o.kind = Numeric /\ t.kind = Numeric
    THEN LET cmp == NumericCmp(o.text, t.text)
         IN  IF cmp # Equal THEN cmp ELSE Running
    ELSE LET cmp == NonNumericCmp(o.text, t.text)
         IN  IF cmp # Equal THEN cmp ELSE Running

\* match (self_tokens.next(), other_tokens.next())
MatchItems(o, t) ==
    IF ~o.some /\ ~t.some THEN Equal
    ELSE IF ~o.some THEN Less
    ELSE IF ~t.some THEN Greater
    ELSE MatchKinds(o.val, t.val)

\* the digit graphemes and the graphemes of the inputs
Digit(d) == <<48 + d>>
Graphemes == {G0, G1, G2, Ga, Gb, GL, GO, Geacute} \cup {Digit(d) : d \in 0..9}

\* let sorting_type_function = &sorting_type
sorting_type_function == [g \in Graphemes |-> sorting_type(g)]

RECURSIVE CmpLoop(_, _)
CmpLoop(st, ot) ==
    LET a == TokenIterator_next(st)
        b == TokenIterator_next(ot)
        v == MatchItems(a.item, b.item)
    IN  IF v = Running THEN CmpLoop(a.it, b.it) ELSE v

\* fn humane_cmp(&self, other: &Self) -> Ordering, as one call
humane_cmp(x, y) ==
    CmpLoop(TokenIterator_new(x, sorting_type_function),
            TokenIterator_new(y, sorting_type_function))

(***************************************************************************)
(* Inputs.                                                                 *)
(***************************************************************************)
StringsUpTo(alphabet, n) == UNION {[1..k -> alphabet] : k \in 0..n}

DigitString(ds) == [i \in 1..Len(ds) |-> Digit(ds[i])]

\* digit runs around usize::MAX: the maximum, the maximum with a leading
\* zero, the maximum plus one, and twenty nines
BigRuns ==
    {DigitString(USIZE_MAX),
     DigitString(<<0>> \o USIZE_MAX),
     DigitString([USIZE_MAX EXCEPT ![Len(USIZE_MAX)] = @ + 1]),
     DigitString([i \in 1..Len(USIZE_MAX) |-> 9])}

BigInputs ==
    {pre \o run \o post : pre \in {<<>>, <<Ga>>}, run \in BigRuns,
                          post \in {<<>>, <<Ga>>}}

CmpAlphabet == {G0, G1, G2, Ga, Geacute}
CmpInputs == StringsUpTo(CmpAlphabet, MaxLen) \cup BigInputs

TokAlphabet == {G1, GL, GO, Geacute}
TokInputs == StringsUpTo(TokAlphabet, MaxTokLen)
\* every classification of the tokenizer's graphemes into two kinds
TokClassifiers == [TokAlphabet -> SortingType]

TransAlphabet == {G0, G1, Ga}
TransBig ==
    {run \o post : run \in {DigitString(USIZE_MAX),
                            DigitString([i \in 1..Len(USIZE_MAX) |-> 9])},
                   post \in {<<>>, <<Ga>>}}
TransInputs == StringsUpTo(TransAlphabet, MaxTransLen) \cup TransBig

(***************************************************************************)
(* Spec: one call of humane_cmp, one step per iteration of its loop.       *)
(***************************************************************************)
CmpIdle ==
    /\ self_string = <<>>
    /\ other_string = <<>>
    /\ self_tokens = TokenIterator_new(<<>>, sorting_type_function)
    /\ other_tokens = TokenIterator_new(<<>>, sorting_type_function)
    /\ ours = None
    /\ theirs = None
    /\ verdict = Running

TokIdle ==
    /\ tk_iter = TokenIterator_new(<<>>, [g \in TokAlphabet |-> NonNumeric])
    /\ tk_yielded = <<>>
    /\ tk_calls = <<>>
    /\ tk_done = FALSE

TransIdle ==
    /\ tr_strings = <<>>
    /\ tr_results = <<>>

cmpVars == <<self_string, other_string, self_tokens, other_tokens, ours, theirs, verdict>>
tokVars == <<tk_iter, tk_yielded, tk_calls, tk_done>>
transVars == <<tr_strings, tr_results>>

Init ==
    /\ self_string \in CmpInputs
    /\ other_string \in CmpInputs
    /\ self_tokens = TokenIterator_new(self_string, sorting_type_function)
    /\ other_tokens = TokenIterator_new(other_string, sorting_type_function)
    /\ ours = None
    /\ theirs = None
    /\ verdict = Running
    /\ TokIdle
    /\ TransIdle

\* one iteration of the loop of humane_cmp
LoopStep ==
    /\ verdict = Running
    /\ LET a == TokenIterator_next(self_tokens)
           b == TokenIterator_next(other_tokens)
       IN  /\ self_tokens' = a.it
           /\ other_tokens' = b.it
           /\ ours' = a.item
           /\ theirs' = b.item
           /\ verdict' = MatchItems(a.item, b.item)
    /\ UNCHANGED <<self_string, other_string, tokVars, transVars>>

Next == LoopStep

Spec == Init /\ [][Next]_vars

(***************************************************************************)
(* SpecTok: a TokenIterator over any string with any classification,       *)
(* driven by calls of next().                                              *)
(***************************************************************************)
RECURSIVE CountCalls(_, _)
CountCalls(calls, log) ==
    IF log = <<>> THEN calls
    ELSE CountCalls([calls EXCEPT ![Head(log)] = @ + 1], Tail(log))

TokInit ==
    /\ \E s \in TokInputs, f \in TokClassifiers :
          /\ tk_iter = TokenIterator_new(s, f)
          /\ tk_calls = [i \in 1..Len(s) |-> 0]
    /\ tk_yielded = <<>>
    /\ tk_done = FALSE
    /\ CmpIdle
    /\ TransIdle

\* it.next()
TokNext ==
    /\ LET r == TokenIterator_next(tk_iter)
       IN  /\ tk_iter' = r.it
           /\ tk_calls' = CountCalls(tk_calls, r.log)
           /\ tk_yielded' = IF r.item.some THEN Append(tk_yielded, r.item.val)
                            ELSE tk_yielded
           /\ tk_done' = ~r.item.some
    /\ UNCHANGED <<cmpVars, transVars>>

SpecTok == TokInit /\ [][TokNext]_vars

(***************************************************************************)
(* SpecTrans: humane_cmp called on the pairs (a,b), (b,c), (a,c) of three  *)
(* strings, as a sort does.                                                *)
(***************************************************************************)
TransInit ==
    /\ tr_strings \in TransInputs \X TransInputs \X TransInputs
    /\ tr_results = <<>>
    /\ CmpIdle
    /\ TokIdle

TransPairs == <<<<1, 2>>, <<2, 3>>, <<1, 3>>>>

\* a.humane_cmp(b)
TransCall ==
    /\ Len(tr_results) < Len(TransPairs)
    /\ LET p == TransPairs[Len(tr_results) + 1]
       IN  tr_results' = Append(tr_results,
                                humane_cmp(tr_strings[p[1]], tr_strings[p[2]]))
    /\ UNCHANGED <<tr_strings, cmpVars, tokVars>>

SpecTrans == TransInit /\ [][TransCall]_vars

(***************************************************************************)
(* The tokenizer's claims, under SpecTok.                                  *)
(***************************************************************************)
\* the graphemes of s whose bytes lie in the span of item
GraphemesIn(s, item) ==
    {k \in 1..Len(s) : item.first <= Offset(s, k) /\ Offset(s, k) < item.end}

RECURSIVE Concat(_)
Concat(items) ==
    IF items = <<>> THEN <<>> ELSE Head(items).text \o Concat(Tail(items))

TokString == tk_iter.string

\* C8: the spans yielded so far tile a prefix of the string (the first starts
\* at offset 0, each starts where the previous one ended, none is empty, each
\* text is the bytes of its span), and once next() has returned None the last
\* span ends at the string's length, the texts concatenated are the string, a
\* non-empty string has yielded a token and the empty string none.
C8_SpansTileTheString ==
    /\ \A i \in 1..Len(tk_yielded) :
          /\ tk_yielded[i].first = (IF i = 1 THEN 0 ELSE tk_yielded[i - 1].end)
          /\ tk_yielded[i].first < tk_yielded[i].end
          /\ tk_yielded[i].end <= StrLen(TokString)
          /\ tk_yielded[i].text =
                SubSeq(Bytes(TokString), tk_yielded[i].first + 1, tk_yielded[i].end)
    /\ tk_done =>
          /\ Concat(tk_yielded) = Bytes(TokString)
          /\ (TokString # <<>> =>
                 /\ Len(tk_yielded) >= 1
                 /\ tk_yielded[Len(tk_yielded)].end = StrLen(TokString))
          /\ (TokString = <<>> => tk_yielded = <<>>)

\* a string with a two-byte grapheme inside has been split into three tokens
C8_Witness ==
    /\ tk_done
    /\ TokString = <<G1, Geacute, Geacute, GL, G1>>
    /\ tk_iter.token_type = [g \in TokAlphabet |-> IF g = Geacute THEN Numeric ELSE NonNumeric]
    /\ Len(tk_yielded) = 3
    /\ tk_yielded[2].first = 1
    /\ tk_yielded[2].end = 5

\* C9: every token yielded is a maximal run of one kind: each grapheme in its
\* span classifies to the kind reported with it, a span starts and ends at
\* grapheme boundaries, two consecutive tokens differ in kind; so a string
\* whose graphemes are all of one kind yields exactly one token, and "11LOL"
\* under the digit classifier yields "11" (Numeric) then "LOL" (NonNumeric).
\* On these graphemes sorting_type and the closure of tests::sorting_test
\* (all chars are char::is_numeric) are the same classification.
C9_MaximalRuns ==
    /\ \A i \in 1..Len(tk_yielded) :
          /\ GraphemesIn(TokString, tk_yielded[i]) # {}
          /\ \A k \in GraphemesIn(TokString, tk_yielded[i]) :
                tk_iter.token_type[TokString[k]] = tk_yielded[i].kind
          /\ i > 1 => tk_yielded[i].kind # tk_yielded[i - 1].kind
    /\ (tk_done /\ TokString # <<>>
          /\ (\A k \in 1..Len(TokString) :
                 tk_iter.token_type[TokString[k]] = tk_iter.token_type[TokString[1]]))
          => Len(tk_yielded) = 1
    /\ (tk_done /\ TokString = <<G1, G1, GL, GO, GL>>
          /\ tk_iter.token_type = [g \in TokAlphabet |-> sorting_type(g)])
          => /\ Len(tk_yielded) = 2
             /\ tk_yielded[1].text = Bytes(<<G1, G1>>)
             /\ tk_yielded[1].kind = Numeric
             /\ tk_yielded[2].text = Bytes(<<GL, GO, GL>>)
             /\ tk_yielded[2].kind = NonNumeric

\* "11LOL" has been tokenized to the end with the digit classifier
C9_Witness ==
    /\ tk_done
    /\ TokString = <<G1, G1, GL, GO, GL>>
    /\ tk_iter.token_type = [g \in TokAlphabet |-> sorting_type(g)]
    /\ Len(tk_yielded) = 2

\* C10 as stated: the classification function is applied to no grapheme more
\* than twice.
C10_AtMostTwice ==
    \A k \in 1..Len(TokString) : tk_calls[k] <= 2

\* C10, amended: the tokenizer is single-pass with one grapheme of lookahead
\* (the iterator has consumed exactly the graphemes of the tokens yielded, and
\* no grapheme beyond the next one has been classified), the classification
\* function is applied at most three times to the last grapheme of the string
\* and at most twice to every other grapheme.
C10_AtMostThriceAtEnd ==
    /\ tk_iter.grapheme_iterator =
          1 + Cardinality(UNION {GraphemesIn(TokString, tk_yielded[i]) :
                                 i \in 1..Len(tk_yielded)})
    /\ \A k \in 1..Len(TokString) :
          /\ tk_calls[k] > 0 => k <= tk_iter.grapheme_iterator
          /\ tk_calls[k] <= 3
          /\ k < Len(TokString) => tk_calls[k] <= 2

\* a string of one kind has been tokenized to the end and its last grapheme
\* was classified three times
C10_Witness ==
    /\ tk_done
    /\ Len(TokString) = 3
    /\ Len(tk_yielded) = 1
    /\ tk_calls = <<1, 2, 3>>

(***************************************************************************)
(* The comparator's claims, under Spec.                                    *)
(***************************************************************************)
Returned == verdict # Running

\* the unsigned integer value of a run of ASCII digits, of any length
ValueOf(text) == StripZeros([i \in 1..Len(text) |-> text[i] - 48])

\* both iterators produced a token in the last iteration
BothSome == ours.some /\ theirs.some

\* all the tokens of a string under sorting_type
RECURSIVE Drain(_)
Drain(it) ==
    LET r == TokenIterator_next(it)
    IN  IF r.item.some THEN <<[text |-> r.item.val.text, kind |-> r.item.val.kind]>>
                            \o Drain(r.it)
        ELSE <<>>

TokensOf(s) == Drain(TokenIterator_new(s, sorting_type_function))

IsProperPrefix(x, y) == Len(x) < Len(y) /\ SubSeq(y, 1, Len(x)) = x

\* C1: humane_cmp returns an Ordering for every pair of strings and never
\* panics, also when it reaches a pair of Numeric tokens of which one is a
\* digit run that does not fit usize.
C1_NeverPanics ==
    /\ verdict \in Ordering \cup {Running}
    /\ (BothSome /\ ours.val.kind = Numeric /\ theirs.val.kind = Numeric
          /\ (CmpValue(ValueOf(ours.val.text), USIZE_MAX) = Greater
                \/ CmpValue(ValueOf(theirs.val.text), USIZE_MAX) = Greater))
          => verdict \in {Running,
                          CmpValue(ValueOf(ours.val.text), ValueOf(theirs.val.text))}

C3_Antisymmetric ==
    Returned =>
        /\ (verdict = Less <=> humane_cmp(other_string, self_string) = Greater)
        /\ (verdict = Greater <=> humane_cmp(other_string, self_string) = Less)
        /\ (verdict = Equal <=> humane_cmp(other_string, self_string) = Equal)
        /\ (self_string = other_string => verdict = Equal)

\* C5: when the tokens pulled at the same position are both Numeric, they are
\* compared by unsigned integer value, leading zeros ignored: values that
\* differ give the verdict, equal values let the loop go on.
C5_NumericByValue ==
    (BothSome /\ ours.val.kind = Numeric /\ theirs.val.kind = Numeric) =>
        LET cmp == CmpValue(ValueOf(ours.val.text), ValueOf(theirs.val.text))
        IN  verdict = (IF cmp # Equal THEN cmp ELSE Running)

\* C6: when the tokens pulled at the same position are both NonNumeric, their
\* texts are compared in ordinal (byte) order: texts that differ give the
\* verdict, whatever follows them, equal texts let the loop go on.
C6_NonNumericOrdinal ==
    (BothSome /\ ours.val.kind = NonNumeric /\ theirs.val.kind = NonNumeric) =>
        IF ours.val.text = theirs.val.text
        THEN verdict = Running
        ELSE /\ verdict \in {Less, Greater}
             /\ verdict = Less <=>
                   \/ IsProperPrefix(ours.val.text, theirs.val.text)
                   \/ \E i \in 1..Len(ours.val.text) :
                         /\ i <= Len(theirs.val.text)
                         /\ SubSeq(ours.val.text, 1, i - 1) = SubSeq(theirs.val.text, 1, i - 1)
                         /\ ours.val.text[i] < theirs.val.text[i]

\* "a2" against "e'1" (e acute): "a" is Less than "e'" although 2 > 1
C6_Witness ==
    /\ self_string = <<Ga, G2>>
    /\ other_string = <<Geacute, G1>>
    /\ BothSome
    /\ ours.val.kind = NonNumeric
    /\ theirs.val.kind = NonNumeric
    /\ verdict = Less

\* C7: when exactly one iterator is exhausted its side is Less, when both are
\* the verdict is Equal; hence the empty string is Less than every non-empty
\* string, two empty strings are Equal, and a string whose token sequence is
\* a proper prefix of another's is Less than it.
C7_ExhaustedIsLess ==
    /\ (Returned /\ ~ours.some /\ ~theirs.some) => verdict = Equal
    /\ (Returned /\ ~ours.some /\ theirs.some) => verdict = Less
    /\ (Returned /\ ours.some /\ ~theirs.some) => verdict = Greater
    /\ (Returned /\ self_string = <<>> /\ other_string # <<>>) => verdict = Less
    /\ (Returned /\ self_string = <<>> /\ other_string = <<>>) => verdict = Equal
    /\ (Returned /\ IsProperPrefix(TokensOf(self_string), TokensOf(other_string)))
          => verdict = Less

(***************************************************************************)
(* Transitivity, under SpecTrans.                                          *)
(***************************************************************************)
NotGreater(o) == o \in {Less, Equal}

\* C4: if humane_cmp(a, b) and humane_cmp(b, c) both return an Ordering that
\* is not Greater, so does humane_cmp(a, c); and if both return Equal, so
\* does humane_cmp(a, c).
C4_Transitive ==
    Len(tr_results) = Len(TransPairs) =>
        /\ (NotGreater(tr_results[1]) /\ NotGreater(tr_results[2]))
              => NotGreater(tr_results[3])
        /\ (tr_results[1] = Equal /\ tr_results[2] = Equal)
              => tr_results[3] = Equal

\* "01" = "1" < "1a": leading zeros, mixed kinds
C4_Witness ==
    /\ tr_strings = <<<<G0, G1>>, <<G1>>, <<G1, Ga>>>>
    /\ tr_results = <<Equal, Less, Less>>

====
